---- MODULE Spec2Model ----
(***************************************************************************)
(* Model of the playlist video-ID retrieval loop of                        *)
(* "Youtube Data Exploration/Youtube Data Scraper.py" (lines 18-50).       *)
(*                                                                         *)
(* The listing capability (youtube.playlistItems().list(...).execute()) is *)
(* the environment.  What it will answer on its 1st, 2nd, ... call is      *)
(* fixed up front in `upstream`; the script consumes the answers one call  *)
(* at a time; where `upstream` runs out the model stops asking, which      *)
(* stands for an upstream that goes on.  An optional token (Python None or *)
(* a str) is a sequence of length at most one: <<>> is None, <<"">> is the *)
(* empty string.                                                           *)
(***************************************************************************)
EXTENDS Integers, Sequences, FiniteSets

VARIABLES upstream, served, calls, video_ids, next_page_token, pc, raised, stdout

vars == <<upstream, served, calls, video_ids, next_page_token, pc, raised, stdout>>

(* ------------------------------ bounds -------------------------------- *)

\* Most calls the upstream is asked to answer.
MaxPages == 3
\* Most video ids the upstream hands out over all its pages together.
MaxVideos == 4

Ids == {"a", "b"}
TokenStrings == {"", "t1", "t2"}

(* ------------------------- values of the model ------------------------ *)

None == <<>>

OptTokens == {None} \cup {<<t>> : t \in TokenStrings}

SeqUpTo(S, n) == UNION {[1..k -> S] : k \in 0..n}

\* A well-formed response: 'items' with a videoId each, optional nextPageToken.
PageResponses(n) == [kind : {"page"}, items : SeqUpTo(Ids, n), token : OptTokens]

\* execute() raises (network, authentication, quota ...).
FailResponses == [kind : {"fail"}, items : {<<>>}, token : {None}]

\* A response whose 'items' key, or the 'contentDetails'/'videoId' key of one
\* of its items, is missing; `items` are the identifiers that precede the
\* malformed item (all of them readable, hence appended before the KeyError).
MalformedResponses(n) == [kind : {"malformed"}, items : SeqUpTo(Ids, n), token : {None}]

Responses(n) == PageResponses(n) \cup FailResponses \cup MalformedResponses(n)

\* A response after which the script never calls again.  What the upstream
\* would have answered to later calls is never requested, so of all such
\* continuations two are kept: nothing, and the one page Beyond.
Final(r) == r.kind # "page" \/ r.token \in {<<>>, <<"">>}

Beyond == [kind |-> "page", items |-> <<"a">>, token |-> None]

\* u is one of the scripts that extend `prefix` by at most n answers which
\* hand out at most `budget` video ids.
RECURSIVE IsScript(_, _, _, _)
IsScript(u, prefix, n, budget) ==
    \E r \in Responses(budget) :
        IF Final(r)
        THEN u = Append(prefix, r) \/ (n >= 2 /\ u = prefix \o <<r, Beyond>>)
        ELSE IF n = 1
             THEN u = Append(prefix, r)
             ELSE IsScript(u, Append(prefix, r), n - 1, budget - Len(r.items))

(* --------------------------- pure helpers ----------------------------- *)

\* Python truthiness of `next_page_token` as tested by `if not next_page_token`.
TruthyIsNotNone(tok) == tok # None

Truthy(tok) == tok # None /\ tok[1] # ""

\* for item in ...['items']: video_ids.append(item[...]['videoId'])
AppendAllFront(ids, items) == items \o ids

RECURSIVE AppendAllDedup(_, _)
AppendAllDedup(ids, items) ==
    IF items = <<>> THEN ids
    ELSE AppendAllDedup(IF \E i \in 1..Len(ids) : ids[i] = Head(items)
                        THEN ids ELSE Append(ids, Head(items)),
                        Tail(items))

RECURSIVE AppendAll(_, _)
AppendAll(ids, items) ==
    IF items = <<>> THEN ids
    ELSE AppendAll(Append(ids, Head(items)), Tail(items))

(* ------------------------------ state --------------------------------- *)

Init ==
    /\ IsScript(upstream, <<>>, MaxPages, MaxVideos)
    /\ served = 0
    /\ calls = <<>>
    /\ video_ids = <<>>
    /\ next_page_token = None
    /\ pc = "call"
    /\ raised = "none"
    /\ stdout = <<>>

\* The spec's two collector states, read off the control position.
State == IF pc \in {"call", "await"} THEN "FETCHING" ELSE "DONE"

Pending == Len(calls) - served

(* ----------------------------- actions -------------------------------- *)

\* Lines 23-25: issue playlistItems().list(pageToken=next_page_token).execute()
RequestStale ==
    /\ pc = "call"
    /\ raised = "none"
    /\ Len(calls) < Len(upstream)
    /\ calls' = Append(calls, IF served = 0 THEN None ELSE upstream[1].token)
    /\ pc' = "await"
    /\ UNCHANGED <<upstream, served, video_ids, next_page_token, raised, stdout>>

RequestNoWait ==
    /\ pc = "call"
    /\ raised = "none"
    /\ Len(calls) < Len(upstream)
    /\ calls' = Append(calls, next_page_token)
    /\ pc' = IF Len(calls) + 1 < Len(upstream) /\ Len(calls) = served
             THEN "call" ELSE "await"
    /\ UNCHANGED <<upstream, served, video_ids, next_page_token, raised, stdout>>

Request ==
    /\ pc = "call"
    /\ raised = "none"
    /\ Len(calls) < Len(upstream)
    /\ calls' = Append(calls, next_page_token)
    /\ pc' = "await"
    /\ UNCHANGED <<upstream, served, video_ids, next_page_token, raised, stdout>>

\* Lines 25-35: the response arrives; append its ids, take its token, break
\* or loop.
RespondPageMaxPages ==
    /\ pc = "await"
    /\ raised = "none"
    /\ upstream[served + 1].kind = "page"
    /\ served' = served + 1
    /\ video_ids' = AppendAll(video_ids, upstream[served + 1].items)
    /\ next_page_token' = upstream[served + 1].token
    /\ pc' = IF Truthy(next_page_token') /\ served' < 2 THEN "call" ELSE "print"
    /\ UNCHANGED <<upstream, calls, raised, stdout>>

RespondPageStopOnEmpty ==
    /\ pc = "await"
    /\ raised = "none"
    /\ upstream[served + 1].kind = "page"
    /\ served' = served + 1
    /\ video_ids' = AppendAll(video_ids, upstream[served + 1].items)
    /\ next_page_token' = upstream[served + 1].token
    /\ pc' = IF Truthy(next_page_token') /\ upstream[served + 1].items # <<>>
             THEN "call" ELSE "print"
    /\ UNCHANGED <<upstream, calls, raised, stdout>>

RespondPage ==
    /\ pc = "await"
    /\ raised = "none"
    /\ upstream[served + 1].kind = "page"
    /\ served' = served + 1
    /\ video_ids' = AppendAll(video_ids, upstream[served + 1].items)
    /\ next_page_token' = upstream[served + 1].token
    /\ pc' = IF Truthy(next_page_token') THEN "call" ELSE "print"
    /\ UNCHANGED <<upstream, calls, raised, stdout>>

\* Line 25: execute() raises; nothing catches it, the script dies there.
RespondFailRetry ==
    /\ pc = "await"
    /\ raised = "none"
    /\ upstream[served + 1].kind = "fail"
    /\ served' = served + 1
    /\ pc' = "call"
    /\ UNCHANGED <<upstream, calls, video_ids, next_page_token, raised, stdout>>

RespondFail ==
    /\ pc = "await"
    /\ raised = "none"
    /\ upstream[served + 1].kind = "fail"
    /\ served' = served + 1
    /\ raised' = "HttpError"
    /\ UNCHANGED <<upstream, calls, video_ids, next_page_token, pc, stdout>>

\* Lines 28-29: a subscript on the response raises KeyError after the ids
\* in front of the malformed item have been appended.
RespondMalformedPrints ==
    /\ pc = "await"
    /\ raised = "none"
    /\ upstream[served + 1].kind = "malformed"
    /\ served' = served + 1
    /\ video_ids' = AppendAll(video_ids, upstream[served + 1].items)
    /\ raised' = "KeyError"
    /\ stdout' = Append(stdout, video_ids')
    /\ UNCHANGED <<upstream, calls, next_page_token, pc>>

RespondMalformed ==
    /\ pc = "await"
    /\ raised = "none"
    /\ upstream[served + 1].kind = "malformed"
    /\ served' = served + 1
    /\ video_ids' = AppendAll(video_ids, upstream[served + 1].items)
    /\ raised' = "KeyError"
    /\ UNCHANGED <<upstream, calls, next_page_token, pc, stdout>>

\* Line 38: print(video_ids)
PrintVideoIds ==
    /\ pc = "print"
    /\ raised = "none"
    /\ stdout' = Append(stdout, video_ids)
    /\ pc' = "reassign"
    /\ UNCHANGED <<upstream, served, calls, video_ids, next_page_token, raised>>

\* Lines 42-50: `video_ids = [VIDEO_IDS]`.  VIDEO_IDS is bound nowhere, so
\* evaluating the right-hand side raises NameError before the name is stored.
ReassignBinds ==
    /\ pc = "reassign"
    /\ raised = "none"
    /\ video_ids' = <<"VIDEO_IDS">>
    /\ pc' = "csv"
    /\ UNCHANGED <<upstream, served, calls, next_page_token, raised, stdout>>

Reassign ==
    /\ pc = "reassign"
    /\ raised = "none"
    /\ raised' = "NameError"
    /\ UNCHANGED <<upstream, served, calls, video_ids, next_page_token, pc, stdout>>

Next ==
    \/ Request
    \/ RespondPage
    \/ RespondFail
    \/ RespondMalformed
    \/ PrintVideoIds
    \/ Reassign

Spec == Init /\ [][Next]_vars

(* ------------------------ vocabulary of the claims -------------------- *)

UpstreamErrors == {"HttpError", "KeyError"}

IsPage(i) == upstream[i].kind = "page"

TokenPresent(i) == upstream[i].token # <<>>

TokenNonEmpty(i) == upstream[i].token # <<>> /\ upstream[i].token # <<"">>

AllPages(n) == \A i \in 1..n : IsPage(i)

RECURSIVE ConcatItems(_)
ConcatItems(n) == IF n = 0 THEN <<>> ELSE ConcatItems(n - 1) \o upstream[n].items

Count(x, s) == Cardinality({i \in 1..Len(s) : s[i] = x})

RECURSIVE SumCount(_, _)
SumCount(x, n) == IF n = 0 THEN 0 ELSE SumCount(x, n - 1) + Count(x, upstream[n].items)

RECURSIVE SumLen(_)
SumLen(n) == IF n = 0 THEN 0 ELSE SumLen(n - 1) + Len(upstream[n].items)

IsPrefix(s, t) == Len(s) <= Len(t) /\ \A i \in 1..Len(s) : s[i] = t[i]

\* After page i the script is on its way to call i+1.
Continues(i) == Len(calls) > i \/ (served = i /\ pc = "call" /\ raised = "none")

\* Page i was the last one: the loop was left right after it.
StopsAt(i) == served = i /\ Len(calls) = i /\ State = "DONE"

(* ------------------------------- C1 ----------------------------------- *)

C1Outcome(N) ==
    /\ State = "DONE" => video_ids = ConcatItems(N) /\ Len(calls) = N
    /\ served = N => State = "DONE"

\* C1 as stated: whenever pages 1..N-1 of the upstream carry a token (any
\* token, the empty string included) and page N carries none, the loop ends
\* with the concatenation of pages 1..N after exactly N calls.
C1Original ==
    \A N \in 1..Len(upstream) :
        (AllPages(N) /\ (\A i \in 1..(N - 1) : TokenPresent(i)) /\ ~TokenPresent(N))
            => C1Outcome(N)

\* C1 (amended): whenever pages 1..N-1 of the upstream carry a non-empty
\* token and page N carries none, the loop ends with the concatenation of the
\* identifiers of pages 1..N, in page order and within-page order, after
\* exactly N calls.
C1Concatenation ==
    \A N \in 1..Len(upstream) :
        (AllPages(N) /\ (\A i \in 1..(N - 1) : TokenNonEmpty(i)) /\ ~TokenPresent(N))
            => C1Outcome(N)

C1Witness ==
    /\ State = "DONE"
    /\ served = 3
    /\ AllPages(3) /\ TokenNonEmpty(1) /\ TokenNonEmpty(2) /\ ~TokenPresent(3)
    /\ upstream[1].items = <<"a", "b">>
    /\ upstream[2].items = <<"b">>
    /\ upstream[3].items = <<"a">>
    /\ video_ids = <<"a", "b", "b", "a">>

(* ------------------------------- C2 ----------------------------------- *)

\* C2: if the listing capability fails on call k, the script ends with an
\* upstream error and nothing is ever printed, whatever was accumulated from
\* the pages before the failure.
C2NoPartialResult ==
    \A k \in 1..served :
        ~IsPage(k) => raised \in UpstreamErrors /\ stdout = <<>> /\ State = "FETCHING"

C2Witness ==
    /\ served >= 2
    /\ ~IsPage(served)
    /\ raised \in UpstreamErrors
    /\ Len(video_ids) >= 2

(* ------------------------------- C3 ----------------------------------- *)

\* C3 as stated: under a non-failing upstream the loop has reached DONE
\* exactly when some returned page carries no token.
C3Original ==
    AllPages(served) =>
        (State = "DONE" <=> \E i \in 1..served : ~TokenPresent(i))

\* C3 (amended): under a non-failing upstream the loop has reached DONE
\* exactly when some returned page carries no token or an empty one; while
\* every returned page carries a non-empty token the loop is still fetching,
\* however many pages that is.
C3Termination ==
    AllPages(served) =>
        (State = "DONE" <=> \E i \in 1..served : ~TokenNonEmpty(i))

C3Witness ==
    /\ served >= 3
    /\ AllPages(served)
    /\ \A i \in 1..(served - 1) : TokenNonEmpty(i)
    /\ ~TokenNonEmpty(served)
    /\ State = "DONE"

(* ------------------------------- C4 ----------------------------------- *)

\* C4: no deduplication: at the end every identifier occurs in the result as
\* often as in all fetched pages together, and the result is as long as the
\* pages together.
C4NoDedup ==
    State = "DONE" =>
        /\ \A x \in Ids : Count(x, video_ids) = SumCount(x, served)
        /\ Len(video_ids) = SumLen(served)

C4Witness ==
    /\ State = "DONE"
    /\ served >= 2
    /\ \E x \in Ids :
        /\ Count(x, upstream[1].items) = 1
        /\ Count(x, upstream[2].items) = 1
        /\ Count(x, video_ids) >= 2

(* ------------------------------- C5 ----------------------------------- *)

Failed == \E k \in 1..served : ~IsPage(k)

C5NoCallAfterFailure == \A k \in 1..served : ~IsPage(k) => Len(calls) = k

\* C5 as stated: a failure on call k leaves exactly k calls issued, and no
\* token has been passed to the capability a second time.
C5Original ==
    /\ C5NoCallAfterFailure
    /\ Failed => \A i, j \in 1..Len(calls) : i # j => calls[i] # calls[j]

\* C5 (amended): a failure on call k leaves exactly k calls issued, none
\* after the failed one, and a token has been passed a second time only where
\* the upstream itself returned it on two pages.
C5NoRetry ==
    /\ C5NoCallAfterFailure
    /\ Failed => \A i, j \in 1..Len(calls) :
        (i < j /\ calls[i] = calls[j]) =>
            i >= 2 /\ upstream[i - 1].token = upstream[j - 1].token

C5Witness ==
    /\ raised = "HttpError"
    /\ served = 3
    /\ Len(calls) = 3
    /\ calls[2] = calls[3]

(* ------------------------------- C6 ----------------------------------- *)

\* C6: the first call passes no token; call i >= 2 passes the token of the
\* page returned by call i-1, which is never "no token".
C6TokenThreading ==
    \A i \in 1..Len(calls) :
        IF i = 1 THEN calls[i] = <<>>
        ELSE calls[i] = upstream[i - 1].token /\ calls[i] # <<>>

C6Witness ==
    /\ Len(calls) = 3
    /\ calls[2] # calls[3]
    /\ served = 3

(* ------------------------------- C7 ----------------------------------- *)

C7FinalPage(i) ==
    ~TokenPresent(i) => StopsAt(i) /\ video_ids = ConcatItems(i)

C7SinglePage ==
    (served >= 1 /\ IsPage(1) /\ upstream[1].items = <<>> /\ ~TokenPresent(1))
        => video_ids = <<>> /\ Len(calls) = 1 /\ State = "DONE"

\* C7 as stated: a page with zero items but a token present (any token, the
\* empty string included) is followed by another fetch; a page without token
\* is accumulated in full before the loop stops.
C7Original ==
    /\ \A i \in 1..served : IsPage(i) =>
        /\ (upstream[i].items = <<>> /\ TokenPresent(i)) => Continues(i)
        /\ C7FinalPage(i)
    /\ AllPages(served) => video_ids = ConcatItems(served)
    /\ C7SinglePage

\* C7 (amended): whether another fetch follows a page depends on its token
\* alone: it does exactly when the token is non-empty, also for a page with
\* zero items, which adds nothing; a page without token is accumulated in
\* full before the loop stops; one page with no items and no token gives the
\* empty result after one call.
C7StopOnTokenOnly ==
    /\ \A i \in 1..served : IsPage(i) =>
        /\ TokenNonEmpty(i) <=> Continues(i)
        /\ C7FinalPage(i)
    /\ AllPages(served) => video_ids = ConcatItems(served)
    /\ C7SinglePage

C7Witness ==
    /\ served = 2
    /\ AllPages(2)
    /\ upstream[1].items = <<>> /\ TokenNonEmpty(1)
    /\ upstream[2].items # <<>> /\ ~TokenPresent(2)
    /\ video_ids = upstream[2].items
    /\ State = "DONE"

(* ------------------------------- C8 ----------------------------------- *)

\* C8: at most one fetch is pending at any time, and DONE is terminal: once
\* the loop is left the state stays DONE and no further call is issued.
C8DoneTerminal ==
    [][ /\ State' \in {"FETCHING", "DONE"}
        /\ Pending' \in {0, 1}
        /\ State = "DONE" => State' = "DONE" /\ calls' = calls /\ served' = served
      ]_vars

C8Witness ==
    /\ State = "DONE"
    /\ served >= 2
    /\ served < Len(upstream)
    /\ raised = "NameError"

(* ------------------------------- C9 ----------------------------------- *)

\* C9: the result starts empty, every step extends it at the end, what is
\* printed is the complete result, and after the loop it no longer changes.
C9Lifecycle ==
    /\ video_ids = <<>>
    /\ [][ /\ IsPrefix(video_ids, video_ids')
           /\ State = "DONE" => video_ids' = video_ids
           /\ stdout' # <<>> => stdout' = <<video_ids'>> /\ video_ids' = ConcatItems(served')
         ]_vars

C9Witness ==
    /\ raised = "NameError"
    /\ stdout = <<video_ids>>
    /\ Len(video_ids) >= 3
    /\ served >= 2

(* ------------------------------- C10 ---------------------------------- *)

\* C10: a page whose token is the empty string ends the loop like a page
\* without token, and every call after the first follows a non-empty token.
C10EmptyTokenStops ==
    /\ \A i \in 1..served : (IsPage(i) /\ upstream[i].token = <<"">>) => StopsAt(i)
    /\ \A i \in 2..Len(calls) : upstream[i - 1].token \notin {<<>>, <<"">>}

C10Witness ==
    /\ served >= 2
    /\ served < Len(upstream)
    /\ IsPage(served)
    /\ upstream[served].token = <<"">>
    /\ State = "DONE"
    /\ stdout = <<video_ids>>

====
